---- MODULE Spec2Model ----
(***************************************************************************)
(* State-machine model of the lmhlo -> XLA CPU runtime lowering pass        *)
(* (xla/mlir/backends/cpu/transforms/lmhlo_to_cpu_runtime.cc).              *)
(*                                                                          *)
(* The IR is a module of functions, each one entry block holding a          *)
(* sequence of instructions.  The greedy rewrite driver takes operations    *)
(* off its worklist in an unspecified order and hands each to the pattern   *)
(* of its kind; a pattern either rewrites the operation or declines it.     *)
(***************************************************************************)
EXTENDS Integers, Sequences, FiniteSets, TLC

\* ------------------------------------------------------------------ bounds

\* Most operations in the compilation unit (pipeline specification).
MaxOps == 2
\* Longest operand list of an all-reduce (all-reduce specification).
MaxOperands == 2
\* Functions in the module.
NumFuncs == 2
\* Most source arguments / outputs of a generic custom call.
MaxArgs == 2
MaxOuts == 1
\* Most target argument / result slots a mapping declares.
MaxTargetArgs == 3
MaxTargetResults == 2

\* ------------------------------------------------------------------- types

\* MemRefType::get(shape, elementType): the default (identity) layout.
MemRefTypeGet(shape, elem) ==
    [buf |-> TRUE, shape |-> shape, elem |-> elem, layout |-> "identity"]

\* A memref type whose layout is not the identity (a subview's result).
StridedMemRef(shape, elem) ==
    [buf |-> TRUE, shape |-> shape, elem |-> elem, layout |-> "strided"]

\* b.getI32Type(): not a memref.
I32Type == [buf |-> FALSE, shape |-> "", elem |-> "i32", layout |-> ""]

\* MemRefType::get({0}, b.getI8Type()): the type of a hole.
HoleType == MemRefTypeGet("0", "i8")

\* What MemRefType::get yields from the shape and element type read through
\* an invalid cast<MemRefType>: no type of the program.
GarbageType == MemRefTypeGet("?", "?")

\* ------------------------------------------------------------------ values

\* An SSA value: where it is defined (def, n, p) and its static type.
\* def = "arg": value n of the surrounding program; def = "alloca": the
\* hole created while lowering operation n; def = "alloc": the buffer
\* created for operand p of all-reduce n.
Value(def, n, p, ty) == [def |-> def, n |-> n, p |-> p, ty |-> ty]

NoValue == Value("none", 0, 0, I32Type)

X == Value("arg", 1, 0, MemRefTypeGet("4x4", "f32"))
Y == Value("arg", 2, 0, StridedMemRef("8", "f32"))
S == Value("arg", 3, 0, I32Type)

Buffers == {X, Y}
Values == {X, Y, S}

RECURSIVE TypeRange(_)
\* TypeRange(ValueRange(operands)): the operands' types, in order.
TypeRange(vs) ==
    IF vs = << >> THEN << >> ELSE << Head(vs).ty >> \o TypeRange(Tail(vs))

\* -------------------------------------------------------------- attributes

IntAttr(ty, v) == [ty |-> ty, v |-> v]
NamedAttribute(name, value) == [name |-> name, value |-> value]

\* Operation::setAttr: replaces the attribute of that name or adds it.
SetAttr(dict, name, value) ==
    {a \in dict : a.name # name} \cup {NamedAttribute(name, value)}

GetAttr(dict, name) == (CHOOSE a \in dict : a.name = name).value

\* ------------------------------------------------------------------- kinds

kCustomCallTarget == "xla.cpu.custom_call"
kInfeedTarget == "xla.cpu.infeed"
kOutfeedTarget == "xla.cpu.outfeed"
kPartitionIdTarget == "xla.cpu.partition_id"
kReplicaIdTarget == "xla.cpu.replica_id"
kAllReduceTarget == "xla.cpu.all_reduce"

\* The operation kinds the pass registers a pattern for.
MatchedKinds ==
    {"lmhlo.custom_call", "lmhlo.infeed", "lmhlo.outfeed",
     "xla_cpu.partition_id", "xla_cpu.replica_id", "xla_cpu.all_reduce"}

\* ------------------------------------------------------- source operations

SeqsUpTo(set, n) == UNION {[1..k -> set] : k \in 0..n}

Funcs == 1..NumFuncs

\* lmhlo.custom_call's optional target_arg_mapping attribute.  The slot
\* numbers are 0-based, as in the attribute.
NoMapping ==
    [present |-> FALSE, num_args |-> 0, num_results |-> 0,
     args_to_target_args |-> << >>, results_to_target_results |-> << >>]

Injections(n, m) ==
    {f \in [1..n -> 0..(m - 1)] : \A i, j \in 1..n : i # j => f[i] # f[j]}

\* The mappings the operation's verifier accepts for nargs arguments and
\* nouts outputs: one in-range target slot per source position, no slot
\* twice.
Mappings(nargs, nouts, maxa, maxr) ==
    UNION {{[present |-> TRUE, num_args |-> c[1], num_results |-> c[2],
             args_to_target_args |-> fa, results_to_target_results |-> fr] :
                fa \in Injections(nargs, c[1]), fr \in Injections(nouts, c[2])} :
           c \in (nargs..maxa) \X (nouts..maxr)}

SourceOp(kind, fn, args, outs, mapping, attrs) ==
    [kind |-> kind, fn |-> fn, args |-> args, outs |-> outs,
     mapping |-> mapping, attrs |-> attrs]

CustomCallAttrs ==
    {NamedAttribute("api_version", IntAttr("i32", 2)),
     NamedAttribute("call_target_name", IntAttr("str", 1))}

\* The all-reduce attributes a source operation may carry.
AllReduceAttrSets ==
    {{},
     {NamedAttribute("op_id", IntAttr("i64", 7))},
     {NamedAttribute("use_global_device_ids", IntAttr("i32", 1)),
      NamedAttribute("reduction_kind", IntAttr("i32", 2))},
     {NamedAttribute("op_id", IntAttr("i64", 7)),
      NamedAttribute("use_global_device_ids", IntAttr("i32", 1)),
      NamedAttribute("channel_handle", IntAttr("i64", 3))}}

\* Generic custom calls: every argument and output list within the bounds,
\* without a mapping or with any mapping the verifier accepts.
CustomCallInputs ==
    UNION {{SourceOp("lmhlo.custom_call", 1, c[1], c[2], m, CustomCallAttrs) :
              m \in {NoMapping} \cup
                    Mappings(Len(c[1]), Len(c[2]), MaxTargetArgs, MaxTargetResults)} :
           c \in SeqsUpTo(Buffers, MaxArgs) \X SeqsUpTo({X}, MaxOuts)}

\* All-reduces: every non-empty operand list within the bound.
AllReduceInputs ==
    {SourceOp("xla_cpu.all_reduce", 1, args, << >>, NoMapping, attrs) :
        args \in SeqsUpTo(Values, MaxOperands) \ {<< >>},
        attrs \in AllReduceAttrSets}

\* The operations of the pipeline specification: each kind, feeds of two
\* signatures, custom calls without a mapping and with a mapping that leaves
\* a hole, in every function, and
\* all-reduces that are rewritten, declined, or have a non-buffer operand
\* behind a buffer.
PipelineOps ==
    {SourceOp("lmhlo.infeed", 1, args, << >>, NoMapping, {}) :
        args \in {<< X >>, << Y >>, << X, Y >>}}
    \cup {SourceOp("lmhlo.outfeed", 1, args, << >>, NoMapping, {}) :
        args \in {<< X >>, << Y >>}}
    \cup {SourceOp("xla_cpu.partition_id", 1, << >>, << >>, NoMapping, {}),
          SourceOp("xla_cpu.replica_id", 1, << >>, << >>, NoMapping, {})}
    \cup {SourceOp("xla_cpu.all_reduce", 1, args, << >>, NoMapping, {}) :
        args \in {<< Y >>, << S >>, << X, S >>}}
    \cup UNION {{SourceOp("lmhlo.custom_call", f, << X >>, << >>, m, CustomCallAttrs) :
                   m \in {NoMapping}
                         \cup {h \in Mappings(1, 0, 2, 0) : h.num_args > 1}} :
                f \in Funcs}

\* ------------------------------------------------------------------- state

VARIABLES
    ops,        \* the unit's source operations, by number (never changes)
    body,       \* per function: the entry block's instructions, in order
    sym_table,  \* the module's symbol table: the callee declarations
    worklist,   \* the operations the rewrite driver has still to visit
    aborted,    \* the process died (a failed assertion, a crash)
    requests    \* history: the GetOrCreate requests made, in order

vars == << ops, body, sym_table, worklist, aborted, requests >>

\* An instruction of a block.  `of` is the source operation it stands for
\* (a source operation itself) or was emitted for.
Instr(kind, of, callee, operands, rtypes, attrs, val) ==
    [kind |-> kind, of |-> of, callee |-> callee, operands |-> operands,
     rtypes |-> rtypes, attrs |-> attrs, val |-> val]

CallInstr(o, callee, rtypes, operands, attrs) ==
    Instr("func.call", o, callee, operands, rtypes, attrs, NoValue)
AllocaInstr(o, val) == Instr("memref.alloca", o, "", << >>, << >>, {}, val)
AllocInstr(o, val) == Instr("memref.alloc", o, "", << >>, << >>, {}, val)
CopyInstr(o, src, dst) ==
    Instr("memref.copy", o, "", << src, dst >>, << >>, {}, NoValue)

RECURSIVE InitialBlock(_, _, _)
\* The source operations of function f among seq[k..], in program order.
InitialBlock(seq, k, f) ==
    IF k > Len(seq) THEN << >>
    ELSE (IF seq[k].fn = f
          THEN << Instr(seq[k].kind, k, "", << >>, << >>, {}, NoValue) >>
          ELSE << >>) \o InitialBlock(seq, k + 1, f)

\* The state the pass starts in for the source operations `seq`:
\* runOnOperation has built the symbol table and the (empty) declaration
\* cache, and the driver's worklist holds every operation.
InitOf(seq) ==
    /\ ops = seq
    /\ body = [f \in Funcs |-> InitialBlock(seq, 1, f)]
    /\ sym_table = << >>
    /\ worklist = DOMAIN seq
    /\ aborted = FALSE
    /\ requests = << >>

\* ------------------------------------------------------- callee registry

Declaration(name, params, results) ==
    [name |-> name, params |-> params, results |-> results]

\* CustomCallDeclarations::GetOrCreate(b, target, operand types, result
\* types), as its contract describes it (the class is defined in
\* xla/mlir/runtime/utils/custom_calls.h): the declaration found under the
\* name, whatever its signature, else a new one inserted into the symbol
\* table.  Yields the table, the declaration's place in it and whether it
\* was created.
GetOrCreate(tbl, name, params, results) ==
    IF \E i \in 1..Len(tbl) : tbl[i].name = name
    THEN [tbl |-> tbl,
          idx |-> CHOOSE i \in 1..Len(tbl) : tbl[i].name = name,
          created |-> FALSE]
    ELSE [tbl |-> Append(tbl, Declaration(name, params, results)),
          idx |-> Len(tbl) + 1,
          created |-> TRUE]

Request(o, name, params, results, got) ==
    [of |-> o, name |-> name, params |-> params, results |-> results,
     decl |-> got.idx, created |-> got.created]

\* --------------------------------------------------------- block editing

\* Where source operation o stands in a block.
PosOf(block, o) ==
    CHOOSE i \in 1..Len(block) :
        block[i].of = o /\ block[i].kind \in MatchedKinds

\* The block with source operation o replaced by the instructions `by`.
ReplaceOp(block, o, by) ==
    SubSeq(block, 1, PosOf(block, o) - 1) \o by
        \o SubSeq(block, PosOf(block, o) + 1, Len(block))

\* b.setInsertionPoint(op); b.create(...): instructions put before o.
InsertBefore(block, o, instrs) ==
    SubSeq(block, 1, PosOf(block, o) - 1) \o instrs
        \o SubSeq(block, PosOf(block, o), Len(block))

\* The block without source operation o.
Without(block, o) == ReplaceOp(block, o, << >>)

\* b.setInsertionPointToStart(&func.front()); b.create(...).
InsertAtStart(block, instr) == << instr >> \o block

\* What a rewrite leaves behind.
Rewritten(b, got, req) ==
    [body |-> b, sym_table |-> got.tbl, request |-> req]

\* ------------------------------------------------- generic custom call

RECURSIVE WriteSlots(_, _, _, _, _)
\* for (indexed : enumerate(map)) operands[base + indexed.value()] =
\*     vals[indexed.index()];  from position i on.
WriteSlots(operands, map, vals, base, i) ==
    IF i > Len(map) THEN operands
    ELSE WriteSlots([operands EXCEPT ![base + map[i] + 1] = vals[i]],
                    map, vals, base, i + 1)

\* A lowering that writes the results without the num_args offset.
ExpandHolesResultsUnshifted(op, hole) ==
    LET num_args == op.mapping.num_args
        num_results == op.mapping.num_results
        holes == [i \in 1..(num_args + num_results) |-> hole]
        withArgs == WriteSlots(holes, op.mapping.args_to_target_args,
                               op.args, 0, 1)
    IN  WriteSlots(withArgs, op.mapping.results_to_target_results,
                   op.outs, 0, 1)

\* The operand list of a custom call with a target argument mapping:
\* num_args + num_results holes, then the mapped arguments and results.
ExpandHoles(op, hole) ==
    LET num_args == op.mapping.num_args
        num_results == op.mapping.num_results
        holes == [i \in 1..(num_args + num_results) |-> hole]
        withArgs == WriteSlots(holes, op.mapping.args_to_target_args,
                               op.args, 0, 1)
    IN  WriteSlots(withArgs, op.mapping.results_to_target_results,
                   op.outs, num_args, 1)

\* The hole of custom call o: the result of its memref.alloca.
HoleOf(o) == Value("alloca", o, 0, HoleType)

\* A lowering that leaves the insertion point at the operation: the hole
\* is created in front of the custom call, not at the function's entry.
CreateHoleAtOperation(block, o) ==
    InsertBefore(block, o, << AllocaInstr(o, HoleOf(o)) >>)

\* The block of function f after the custom call's hole is created.
CreateHole(block, o) == InsertAtStart(block, AllocaInstr(o, HoleOf(o)))

CustomCallOperands(o) ==
    IF ops[o].mapping.present
    THEN ExpandHoles(ops[o], HoleOf(o))
    ELSE ops[o].args \o ops[o].outs

CustomCallNumResults(o) ==
    IF ops[o].mapping.present
    THEN ops[o].mapping.num_results
    ELSE Len(ops[o].outs)

\* AppendCustomCallAttrs(call, attrs): the call's attributes.
AppendCustomCallAttrs(attrs, more) == attrs \cup more

\* CustomCallOpLowering::matchAndRewrite on blocks b and symbol table tbl.
CustomCallRewrite(b, tbl, o) ==
    LET op == ops[o]
        operands == CustomCallOperands(o)
        b1 == IF op.mapping.present
              THEN [b EXCEPT ![op.fn] = CreateHole(@, o)]
              ELSE b
        got == GetOrCreate(tbl, kCustomCallTarget, TypeRange(operands), << >>)
        attrs == AppendCustomCallAttrs({},
                   {NamedAttribute("num_results",
                                   IntAttr("i32", CustomCallNumResults(o))),
                    NamedAttribute("api_version",
                                   GetAttr(op.attrs, "api_version")),
                    NamedAttribute("call_target_name",
                                   GetAttr(op.attrs, "call_target_name"))})
        call == CallInstr(o, got.tbl[got.idx].name, << >>, operands, attrs)
    IN  Rewritten([b1 EXCEPT ![op.fn] = ReplaceOp(@, o, << call >>)], got,
                  Request(o, kCustomCallTarget, TypeRange(operands), << >>, got))

\* ----------------------------------------------------- infeed and outfeed

\* A lowering that declares its callee itself instead of asking the
\* registry.
LowerXfeedOwnDeclaration(b, tbl, o, call_target) ==
    LET operands == ops[o].args
        got == [tbl |-> Append(tbl, Declaration(call_target,
                                                TypeRange(operands), << >>)),
                idx |-> Len(tbl) + 1,
                created |-> TRUE]
        call == CallInstr(o, call_target, << >>, operands, {})
    IN  Rewritten([b EXCEPT ![ops[o].fn] = ReplaceOp(@, o, << call >>)], got,
                  Request(o, call_target, TypeRange(operands), << >>, got))

\* LowerXfeed(op, rewriter, call_target, custom_calls).
LowerXfeed(b, tbl, o, call_target) ==
    LET operands == ops[o].args
        got == GetOrCreate(tbl, call_target, TypeRange(operands), << >>)
        call == CallInstr(o, got.tbl[got.idx].name, << >>, operands, {})
    IN  Rewritten([b EXCEPT ![ops[o].fn] = ReplaceOp(@, o, << call >>)], got,
                  Request(o, call_target, TypeRange(operands), << >>, got))

\* ------------------------------------------- partition-id and replica-id

\* IdOpLowering<IdOp>::matchAndRewrite.
IdOpRewrite(b, tbl, o, call_target) ==
    LET got == GetOrCreate(tbl, call_target, << >>, << I32Type >>)
        call == CallInstr(o, got.tbl[got.idx].name, << I32Type >>, << >>, {})
    IN  Rewritten([b EXCEPT ![ops[o].fn] = ReplaceOp(@, o, << call >>)], got,
                  Request(o, call_target, << >>, << I32Type >>, got))

\* -------------------------------------------------------------- all-reduce

\* Whether the pattern's guard lets the operation through:
\* op.getOperandTypes().front().isa<MemRefType>().
FirstOperandIsMemRef(op) == op.args[1].ty.buf

\* The operand positions whose cast<MemRefType>() is invalid.
InvalidCasts(op) == {p \in 1..Len(op.args) : ~op.args[p].ty.buf}

\* The ways an invalid cast can read a layout, per operand position.
CastOutcomes(op) == [1..Len(op.args) -> {"identity", "strided"}]

\* No operand is read through an invalid cast.
NoInvalidCast(op) == [p \in 1..Len(op.args) |-> "identity"]

\* ty.getLayout().isIdentity(); `read` is what an invalid cast reads.
IsIdentityLayout(ty, read) ==
    IF ty.buf THEN ty.layout = "identity" ELSE read = "identity"

\* MemRefType::get(ty.getShape(), ty.getElementType()).
DefaultLayoutType(ty) ==
    IF ty.buf THEN MemRefTypeGet(ty.shape, ty.elem) ELSE GarbageType

\* The buffer allocated for operand p of all-reduce o.
CopyOf(o, p, ty) == Value("alloc", o, p, DefaultLayoutType(ty))

\* A lowering that copies a strided operand but still hands the call the
\* original.
NormalizeOperandKeepsOriginal(o, p, operand, read) ==
    IF IsIdentityLayout(operand.ty, read)
    THEN [operand |-> operand, type |-> operand.ty, instrs |-> << >>]
    ELSE [operand |-> operand,
          type |-> DefaultLayoutType(operand.ty),
          instrs |-> << AllocInstr(o, CopyOf(o, p, operand.ty)),
                        CopyInstr(o, operand, CopyOf(o, p, operand.ty)) >>]

\* One turn of the operand loop: the operand and type the call gets and
\* the instructions emitted for it.
NormalizeOperand(o, p, operand, read) ==
    IF IsIdentityLayout(operand.ty, read)
    THEN [operand |-> operand, type |-> operand.ty, instrs |-> << >>]
    ELSE [operand |-> CopyOf(o, p, operand.ty),
          type |-> DefaultLayoutType(operand.ty),
          instrs |-> << AllocInstr(o, CopyOf(o, p, operand.ty)),
                        CopyInstr(o, operand, CopyOf(o, p, operand.ty)) >>]

RECURSIVE NormalizeOperands(_, _, _, _)
\* The operand loop from position p on: new_operands, new_operand_types
\* and the instructions emitted before the call.
NormalizeOperands(o, args, p, reads) ==
    IF p > Len(args)
    THEN [operands |-> << >>, types |-> << >>, instrs |-> << >>]
    ELSE LET one == NormalizeOperand(o, p, args[p], reads[p])
             rest == NormalizeOperands(o, args, p + 1, reads)
         IN  [operands |-> << one.operand >> \o rest.operands,
              types |-> << one.type >> \o rest.types,
              instrs |-> one.instrs \o rest.instrs]

RECURSIVE CopyAttrs(_, _)
\* for (auto& attr : op->getAttrs()) call->setAttr(name, value).
CopyAttrs(dict, attrs) ==
    IF attrs = {} THEN dict
    ELSE LET a == CHOOSE a \in attrs : TRUE
         IN  CopyAttrs(SetAttr(dict, a.name, a.value), attrs \ {a})

\* A lowering that sets the defaults after copying the attributes.
AllReduceCallAttrsDefaultsLast(attrs) ==
    SetAttr(SetAttr(CopyAttrs({}, attrs),
                    "use_global_device_ids", IntAttr("i32", 0)),
            "op_id", IntAttr("i64", 0))

\* The attributes of the all-reduce call: the two defaults, then the
\* source operation's attributes.
AllReduceCallAttrs(attrs) ==
    CopyAttrs(SetAttr(SetAttr({}, "use_global_device_ids", IntAttr("i32", 0)),
                      "op_id", IntAttr("i64", 0)),
              attrs)

\* A lowering that forgets to erase the all-reduce.
EraseOpForgotten(block, o) == block

\* rewriter.eraseOp(op).
EraseOp(block, o) == Without(block, o)

\* AllReduceLowering::matchAndRewrite past its guard.
AllReduceRewrite(b, tbl, o, reads) ==
    LET op == ops[o]
        new == NormalizeOperands(o, op.args, 1, reads)
        got == GetOrCreate(tbl, kAllReduceTarget, new.types, << >>)
        call == CallInstr(o, got.tbl[got.idx].name, << >>, new.operands,
                          AllReduceCallAttrs(op.attrs))
    IN  Rewritten([b EXCEPT ![op.fn] =
                      EraseOp(InsertBefore(@, o, new.instrs \o << call >>), o)],
                  got,
                  Request(o, kAllReduceTarget, new.types, << >>, got))

\* ----------------------------------------------------------------- actions

\* The driver hands operation o to the pattern registered for `kind`.
Visits(o, kind) == ~aborted /\ o \in worklist /\ ops[o].kind = kind

\* The pattern returned success(): the rewrite is in the IR.  (The driver's
\* later clean-up of results nobody uses is not part of the pass.)
Succeeds(o, r) ==
    /\ body' = r.body
    /\ sym_table' = r.sym_table
    /\ requests' = Append(requests, r.request)
    /\ worklist' = worklist \ {o}
    /\ UNCHANGED << ops, aborted >>

\* The pattern returned failure(): nothing changed.
Declines(o) ==
    /\ worklist' = worklist \ {o}
    /\ UNCHANGED << ops, body, sym_table, aborted, requests >>

\* The process died inside the pattern.
Aborts ==
    /\ aborted' = TRUE
    /\ UNCHANGED << ops, body, sym_table, worklist, requests >>

InfeedOpLowering(o) ==
    /\ Visits(o, "lmhlo.infeed")
    /\ Succeeds(o, LowerXfeed(body, sym_table, o, kInfeedTarget))

OutfeedOpLowering(o) ==
    /\ Visits(o, "lmhlo.outfeed")
    /\ Succeeds(o, LowerXfeed(body, sym_table, o, kOutfeedTarget))

CustomCallOpLowering(o) ==
    /\ Visits(o, "lmhlo.custom_call")
    /\ Succeeds(o, CustomCallRewrite(body, sym_table, o))

PartitionIdOpLowering(o) ==
    /\ Visits(o, "xla_cpu.partition_id")
    /\ Succeeds(o, IdOpRewrite(body, sym_table, o, kPartitionIdTarget))

ReplicaIdOpLowering(o) ==
    /\ Visits(o, "xla_cpu.replica_id")
    /\ Succeeds(o, IdOpRewrite(body, sym_table, o, kReplicaIdTarget))

\* The guard fails: the operation is left as it is.
AllReduceNoMatch(o) ==
    /\ Visits(o, "xla_cpu.all_reduce")
    /\ ~FirstOperandIsMemRef(ops[o])
    /\ Declines(o)

\* Every operand is a memref.
AllReduceLowering(o) ==
    /\ Visits(o, "xla_cpu.all_reduce")
    /\ FirstOperandIsMemRef(ops[o])
    /\ InvalidCasts(ops[o]) = {}
    /\ Succeeds(o, AllReduceRewrite(body, sym_table, o, NoInvalidCast(ops[o])))

\* An operand behind the first is no memref: cast<MemRefType>() on it
\* fails its assertion, or (assertions compiled out) hands out a MemRefType
\* over another type's storage, whose layout reads either way.
AllReduceInvalidCast(o) ==
    /\ Visits(o, "xla_cpu.all_reduce")
    /\ FirstOperandIsMemRef(ops[o])
    /\ InvalidCasts(ops[o]) # {}
    /\ \/ Aborts
       \/ \E reads \in CastOutcomes(ops[o]) :
             Succeeds(o, AllReduceRewrite(body, sym_table, o, reads))

\* applyPatternsAndFoldGreedily with the six patterns of runOnOperation.
Next ==
    \/ \E o \in DOMAIN ops : InfeedOpLowering(o)
    \/ \E o \in DOMAIN ops : OutfeedOpLowering(o)
    \/ \E o \in DOMAIN ops : CustomCallOpLowering(o)
    \/ \E o \in DOMAIN ops : PartitionIdOpLowering(o)
    \/ \E o \in DOMAIN ops : ReplicaIdOpLowering(o)
    \/ \E o \in DOMAIN ops : AllReduceNoMatch(o)
    \/ \E o \in DOMAIN ops : AllReduceLowering(o)
    \/ \E o \in DOMAIN ops : AllReduceInvalidCast(o)

\* A compilation unit of up to MaxOps operations of every kind.
Init == \E seq \in SeqsUpTo(PipelineOps, MaxOps) \ {<< >>} : InitOf(seq)

Spec == Init /\ [][Next]_vars

\* A unit holding one generic custom call, of any shape within the bounds.
InitExpand == \E t \in CustomCallInputs : InitOf(<< t >>)

NextExpand == \E o \in DOMAIN ops : CustomCallOpLowering(o)

SpecExpand == InitExpand /\ [][NextExpand]_vars

\* A unit holding one or two all-reduces, of any shape within the bounds.
InitAllReduce ==
    \E seq \in [{1} -> AllReduceInputs] \cup [{1, 2} -> AllReduceInputs] :
        InitOf(seq)

NextAllReduce ==
    \/ \E o \in DOMAIN ops : AllReduceNoMatch(o)
    \/ \E o \in DOMAIN ops : AllReduceLowering(o)
    \/ \E o \in DOMAIN ops : AllReduceInvalidCast(o)

SpecAllReduce == InitAllReduce /\ [][NextAllReduce]_vars

\* ------------------------------------------------ reading the lowered unit

\* The places (function, index) of the unit's instructions.
Places == UNION {{<< f, i >> : i \in 1..Len(body[f])} : f \in Funcs}
At(pl) == body[pl[1]][pl[2]]

PlacesOfKind(kind) == {pl \in Places : At(pl).kind = kind}
CallPlaces == PlacesOfKind("func.call")

\* The places of what was emitted for source operation o.
EmittedFor(o, kind) == {pl \in PlacesOfKind(kind) : At(pl).of = o}

\* The places where source operation o itself still stands.
SourcePlaces(o) ==
    {pl \in Places : At(pl).kind \in MatchedKinds /\ At(pl).of = o}

\* The source operations still in the unit.
Present == {o \in DOMAIN ops : SourcePlaces(o) # {}}

\* The source operations of a kind that were replaced.
Lowered(kind) == {o \in DOMAIN ops : ops[o].kind = kind /\ o \notin Present}

\* The declarations a callee name refers to.
DeclsNamed(name) == {i \in 1..Len(sym_table) : sym_table[i].name = name}

Range(f) == {f[i] : i \in DOMAIN f}

\* --------------------------------------------------------------- claim C1

\* The custom calls with a mapping that were lowered in function f.
LoweredMapped(f) ==
    {o \in Lowered("lmhlo.custom_call") : ops[o].fn = f /\ ops[o].mapping.present}

\* The slots (1-based) of lowered custom call o that no source argument or
\* result is mapped to.
HoleSlots(o) ==
    LET m == ops[o].mapping
    IN  {t \in 1..(m.num_args + m.num_results) :
            IF t <= m.num_args
            THEN (t - 1) \notin Range(m.args_to_target_args)
            ELSE (t - 1 - m.num_args) \notin Range(m.results_to_target_results)}

\* The values standing in the hole slots of the lowered calls of f.
HoleSlotValues(f) ==
    UNION {{At(pl).operands[t] : t \in HoleSlots(At(pl).of)} :
           pl \in {q \in CallPlaces : At(q).of \in LoweredMapped(f)}}

HolePlaces(f) == {pl \in PlacesOfKind("memref.alloca") : pl[1] = f}

\* C1 as stated: each function holds at most one zero-length byte hole
\* buffer created by the lowering, and the hole slots of every lowered
\* custom call of the function all refer to that one value.
C1_OneHolePerFunction ==
    \A f \in Funcs :
        /\ Cardinality(HolePlaces(f)) <= 1
        /\ Cardinality(HoleSlotValues(f)) <= 1

\* C1 as the code has it: every lowered custom call whose mapping leaves a
\* slot unmapped has a zero-length byte hole buffer of its own in its
\* function, created for no other call; every hole buffer of the function
\* belongs to one of its lowered calls; the hole buffers stand together at
\* the start of the function's entry block; and the hole slots of a lowered
\* call all refer to that call's buffer.
C1_OneHolePerLoweredCall ==
    \A f \in Funcs :
        /\ \A o \in LoweredMapped(f) :
              HoleSlots(o) # {} =>
                /\ Cardinality({h \in HolePlaces(f) : At(h).of = o}) = 1
                /\ \A pl \in EmittedFor(o, "func.call") :
                      \A t \in HoleSlots(o) :
                         \E h \in HolePlaces(f) :
                            At(h).of = o /\ At(pl).operands[t] = At(h).val
        /\ \A h \in HolePlaces(f) :
              /\ At(h).of \in LoweredMapped(f)
              /\ At(h).val.ty = MemRefTypeGet("0", "i8")
              /\ \A pl \in Places :
                    (pl[1] = f /\ pl[2] < h[2]) => At(pl).kind = "memref.alloca"
        /\ \A h1, h2 \in HolePlaces(f) : h1 # h2 => At(h1).val # At(h2).val

\* Two custom calls with a hole slot each were lowered in one function.
C1_TwoCallsWithHoles ==
    \E f \in Funcs :
        /\ Cardinality({o \in LoweredMapped(f) : HoleSlots(o) # {}}) >= 2
        /\ Cardinality(HoleSlotValues(f)) = 2

\* --------------------------------------------------------------- claim C2

\* The hole buffer created for custom call o, read off the unit.
HoleBufferOf(o) ==
    At(CHOOSE h \in EmittedFor(o, "memref.alloca") : TRUE).val

\* What slot t (0-based) of a mapped call must hold: the source value whose
\* position the map sends there, or the hole.
SlotContent(map, vals, t, hole) ==
    IF \E i \in DOMAIN map : map[i] = t
    THEN vals[CHOOSE i \in DOMAIN map : map[i] = t]
    ELSE hole

\* C2: the call emitted for a custom call with a mapping has num_args +
\* num_results operands; slot t < num_args holds source argument i exactly
\* when the argument map sends i to t, slot num_args + t holds source
\* output j exactly when the result map sends j to t, and every other slot
\* holds the hole buffer created for the call.
C2_OperandsFollowMapping ==
    \A o \in Lowered("lmhlo.custom_call") :
        ops[o].mapping.present =>
            LET m == ops[o].mapping
            IN  /\ Cardinality(EmittedFor(o, "func.call")) = 1
                /\ HoleSlots(o) # {} =>
                      Cardinality(EmittedFor(o, "memref.alloca")) = 1
                /\ \A pl \in EmittedFor(o, "func.call") :
                      /\ Len(At(pl).operands) = m.num_args + m.num_results
                      /\ \A t \in 0..(m.num_args - 1) :
                            At(pl).operands[t + 1] =
                               SlotContent(m.args_to_target_args, ops[o].args,
                                           t, HoleBufferOf(o))
                      /\ \A t \in 0..(m.num_results - 1) :
                            At(pl).operands[m.num_args + t + 1] =
                               SlotContent(m.results_to_target_results,
                                           ops[o].outs, t, HoleBufferOf(o))

\* The mapping {0 -> 2, 1 -> 0} over three argument slots and a result
\* mapped behind a hole were lowered: [arg1, hole, arg0, hole, out0].
C2_HoleBetweenMappedSlots ==
    \E o \in Lowered("lmhlo.custom_call") :
        /\ ops[o].mapping.present
        /\ ops[o].mapping.num_args = 3
        /\ ops[o].mapping.args_to_target_args = << 2, 0 >>
        /\ ops[o].mapping.results_to_target_results = << 1 >>
        /\ ops[o].args = << X, Y >>
        /\ \E pl \in EmittedFor(o, "func.call") :
              /\ Len(At(pl).operands) = 5
              /\ At(pl).operands[1] = Y
              /\ At(pl).operands[2] = HoleBufferOf(o)
              /\ At(pl).operands[3] = X
              /\ At(pl).operands[4] = HoleBufferOf(o)
              /\ At(pl).operands[5] = X

\* --------------------------------------------------------------- claim C3

SameRequest(r1, r2) ==
    r1.name = r2.name /\ r1.params = r2.params /\ r1.results = r2.results

\* C3: the symbol table holds at most one declaration per (name, operand
\* types, result types), and a request for a (name, signature) requested
\* before gets the declaration the earlier request got, and inserts none.
C3_OneDeclarationPerSignature ==
    /\ \A i, j \in 1..Len(sym_table) :
          i # j => sym_table[i] # sym_table[j]
    /\ \A i, j \in 1..Len(requests) :
          (i < j /\ SameRequest(requests[i], requests[j])) =>
              /\ requests[j].decl = requests[i].decl
              /\ ~requests[j].created
    /\ Len(sym_table) =
          Cardinality({i \in 1..Len(requests) : requests[i].created})

\* Two operations asked for the same name and signature.
C3_RequestedTwice ==
    /\ Len(requests) = 2
    /\ SameRequest(requests[1], requests[2])
    /\ requests[1].of # requests[2].of
    /\ Len(sym_table) = 1

\* --------------------------------------------------------------- claim C4

\* The all-reduces that were lowered and whose operands are all buffers.
LoweredBufferReduces ==
    {o \in Lowered("xla_cpu.all_reduce") :
        \A p \in 1..Len(ops[o].args) : ops[o].args[p].ty.buf}

\* The request all-reduce o made of the registry.
RequestOf(o) == requests[CHOOSE i \in 1..Len(requests) : requests[i].of = o]

StridedPositions(o) ==
    {p \in 1..Len(ops[o].args) : ops[o].args[p].ty.layout # "identity"}

\* The buffers allocated while lowering o.
AllocatedFor(o) == {At(pl).val : pl \in EmittedFor(o, "memref.alloc")}

\* C4: when an all-reduce is lowered, the call gets each canonical-layout
\* operand as it is, with no allocation or copy for it; for each strided
\* operand exactly one buffer of the same shape and element type and
\* canonical layout is allocated, exactly one copy from the operand into it
\* is emitted before the call, and the call gets the new buffer, declared
\* with the canonical-layout type.  As many allocations and copies as
\* strided operands.
C4_StridedOperandsAreCopied ==
    \A o \in LoweredBufferReduces :
        /\ Cardinality(EmittedFor(o, "func.call")) = 1
        /\ Cardinality(EmittedFor(o, "memref.alloc")) =
              Cardinality(StridedPositions(o))
        /\ Cardinality(EmittedFor(o, "memref.copy")) =
              Cardinality(StridedPositions(o))
        /\ \A c \in EmittedFor(o, "func.call") :
              /\ Len(At(c).operands) = Len(ops[o].args)
              /\ Len(RequestOf(o).params) = Len(ops[o].args)
              /\ \A p \in 1..Len(ops[o].args) :
                    LET src == ops[o].args[p]
                        got == At(c).operands[p]
                    IN  IF src.ty.layout = "identity"
                        THEN /\ got = src
                             /\ got \notin AllocatedFor(o)
                             /\ RequestOf(o).params[p] = src.ty
                        ELSE /\ got # src
                             /\ got.ty.buf
                             /\ got.ty.shape = src.ty.shape
                             /\ got.ty.elem = src.ty.elem
                             /\ got.ty.layout = "identity"
                             /\ RequestOf(o).params[p] = got.ty
                             /\ \A q \in 1..Len(ops[o].args) :
                                   q # p => At(c).operands[q] # got
                             /\ \E a \in EmittedFor(o, "memref.alloc") :
                                   /\ At(a).val = got
                                   /\ a[1] = c[1]
                                   /\ \A a2 \in EmittedFor(o, "memref.alloc") :
                                         At(a2).val = got => a2 = a
                                   /\ \E k \in EmittedFor(o, "memref.copy") :
                                         /\ At(k).operands = << src, got >>
                                         /\ k[1] = c[1]
                                         /\ a[2] < k[2]
                                         /\ k[2] < c[2]
                                         /\ \A k2 \in EmittedFor(o, "memref.copy") :
                                               At(k2).operands[2] = got => k2 = k

\* Two all-reduces were lowered, one with a canonical and a strided
\* operand, one with two strided operands.
C4_MixedLayoutsLowered ==
    \E o1, o2 \in LoweredBufferReduces :
        /\ ops[o1].args = << X, Y >>
        /\ ops[o2].args = << Y, Y >>
        /\ Cardinality(EmittedFor(o1, "memref.alloc")) = 1
        /\ Cardinality(EmittedFor(o2, "memref.copy")) = 2

\* --------------------------------------------------------------- claim C5

AttrNames(dict) == {a.name : a \in dict}

\* C5: the all-reduce call carries use_global_device_ids = 0 (i32) and
\* op_id = 0 (i64) where the source operation has no attribute of that
\* name, every attribute of the source operation with the source's value,
\* and nothing else.
C5_DefaultsThenSourceAttrs ==
    \A o \in Lowered("xla_cpu.all_reduce") :
        \A c \in EmittedFor(o, "func.call") :
            /\ \A a \in ops[o].attrs : a \in At(c).attrs
            /\ "use_global_device_ids" \notin AttrNames(ops[o].attrs) =>
                  NamedAttribute("use_global_device_ids", IntAttr("i32", 0))
                     \in At(c).attrs
            /\ "op_id" \notin AttrNames(ops[o].attrs) =>
                  NamedAttribute("op_id", IntAttr("i64", 0)) \in At(c).attrs
            /\ AttrNames(At(c).attrs) =
                  AttrNames(ops[o].attrs) \cup {"use_global_device_ids", "op_id"}
            /\ Cardinality(At(c).attrs) = Cardinality(AttrNames(At(c).attrs))

\* An all-reduce carrying op_id = 7 and no use_global_device_ids was
\* lowered: the call has op_id = 7 and the default use_global_device_ids.
C5_OverrideAndDefault ==
    \E o \in Lowered("xla_cpu.all_reduce") :
        /\ ops[o].attrs = {NamedAttribute("op_id", IntAttr("i64", 7))}
        /\ \E c \in EmittedFor(o, "func.call") :
              At(c).attrs =
                 {NamedAttribute("op_id", IntAttr("i64", 7)),
                  NamedAttribute("use_global_device_ids", IntAttr("i32", 0))}

\* --------------------------------------------------------------- claim C6

XfeedTarget(kind) ==
    IF kind = "lmhlo.infeed" THEN kInfeedTarget ELSE kOutfeedTarget

\* C6: lowering an infeed (outfeed) with operands o1..on replaces it by
\* exactly one call without results to the declaration named xla.cpu.infeed
\* (xla.cpu.outfeed), with the operands o1..on in order; the declaration has
\* the parameter types of o1..on and no result types; the operation is gone.
C6_XfeedCallMatchesDeclaration ==
    \A o \in Lowered("lmhlo.infeed") \cup Lowered("lmhlo.outfeed") :
        /\ Cardinality(EmittedFor(o, "func.call")) = 1
        /\ \A c \in EmittedFor(o, "func.call") :
              /\ At(c).callee = XfeedTarget(ops[o].kind)
              /\ At(c).operands = ops[o].args
              /\ At(c).rtypes = << >>
              /\ Cardinality(DeclsNamed(At(c).callee)) = 1
              /\ \A d \in DeclsNamed(At(c).callee) :
                    /\ sym_table[d].params = TypeRange(ops[o].args)
                    /\ sym_table[d].results = << >>

\* -------------------------------------------------------------- claim C10

\* C10: every call the pass emitted has the operand types and result types
\* of the declaration its callee name refers to.
C10_CallsMatchDeclarations ==
    \A c \in CallPlaces :
        /\ DeclsNamed(At(c).callee) # {}
        /\ \A d \in DeclsNamed(At(c).callee) :
              /\ sym_table[d].params = TypeRange(At(c).operands)
              /\ sym_table[d].results = At(c).rtypes

\* --------------------------------------------------------------- claim C9

\* What was emitted for source operation o, of any kind.
EmittedAtAll(o) == {pl \in Places : At(pl).of = o} \ SourcePlaces(o)

\* C9: every lowerer succeeds on every operation of its kind, but for an
\* all-reduce whose first operand is no buffer, which is declined with
\* nothing emitted and no declaration made; an all-reduce whose first
\* operand is a buffer is lowered whatever its other operands are.
C9_OnlyTheGuardDeclines ==
    /\ ~aborted
    /\ \A o \in DOMAIN ops \ worklist :
          IF ops[o].kind = "xla_cpu.all_reduce" /\ ~ops[o].args[1].ty.buf
          THEN /\ o \in Present
               /\ EmittedAtAll(o) = {}
               /\ \A i \in 1..Len(requests) : requests[i].of # o
          ELSE /\ o \notin Present
               /\ Cardinality(EmittedFor(o, "func.call")) = 1

\* --------------------------------------------------------------- claim C7

\* How many operations of a kind some pattern matches the unit holds.
MatchableCount ==
    Cardinality({pl \in Places : At(pl).kind \in MatchedKinds})

\* The operations the guard of the all-reduce pattern turns away.
DeclinedByGuard ==
    {o \in DOMAIN ops :
        ops[o].kind = "xla_cpu.all_reduce" /\ ~ops[o].args[1].ty.buf}

PatternResult(b, tbl, o) ==
    CASE ops[o].kind = "lmhlo.infeed" -> LowerXfeed(b, tbl, o, kInfeedTarget)
      [] ops[o].kind = "lmhlo.outfeed" -> LowerXfeed(b, tbl, o, kOutfeedTarget)
      [] ops[o].kind = "lmhlo.custom_call" -> CustomCallRewrite(b, tbl, o)
      [] ops[o].kind = "xla_cpu.partition_id" ->
            IdOpRewrite(b, tbl, o, kPartitionIdTarget)
      [] ops[o].kind = "xla_cpu.replica_id" ->
            IdOpRewrite(b, tbl, o, kReplicaIdTarget)
      [] ops[o].kind = "xla_cpu.all_reduce" ->
            IF FirstOperandIsMemRef(ops[o])
            THEN AllReduceRewrite(b, tbl, o, NoInvalidCast(ops[o]))
            ELSE [body |-> b, sym_table |-> tbl, request |-> << >>]

RECURSIVE InProgramOrder(_, _, _)
\* The unit after the patterns are applied to operations k, k+1, ... in
\* program order.
InProgramOrder(b, tbl, k) ==
    IF k > Len(ops) THEN [body |-> b, sym_table |-> tbl]
    ELSE LET r == PatternResult(b, tbl, k)
         IN  InProgramOrder(r.body, r.sym_table, k + 1)

\* The calls of blocks b: for each source operation its callee, operand
\* list and attributes.
CallsOfUnit(b) ==
    UNION {{[of |-> b[f][i].of, callee |-> b[f][i].callee,
             operands |-> b[f][i].operands, attrs |-> b[f][i].attrs] :
               i \in {j \in 1..Len(b[f]) : b[f][j].kind = "func.call"}} :
           f \in Funcs}

DeclarationsOf(tbl) == {tbl[i] : i \in 1..Len(tbl)}

NoInvalidCasts ==
    \A o \in DOMAIN ops :
        ops[o].kind = "xla_cpu.all_reduce" =>
            (~FirstOperandIsMemRef(ops[o]) \/ InvalidCasts(ops[o]) = {})

\* C8: whatever order the driver applied the patterns in, the unit ends
\* with the same call for each source operation and the same callee
\* declarations as when they are applied in program order.
C8_OrderIndependent ==
    (worklist = {} /\ ~aborted /\ NoInvalidCasts) =>
        LET ref == InProgramOrder(
                      [f \in Funcs |-> InitialBlock(ops, 1, f)], << >>, 1)
        IN  /\ CallsOfUnit(body) = CallsOfUnit(ref.body)
            /\ DeclarationsOf(sym_table) = DeclarationsOf(ref.sym_table)

====
